---- MODULE Spec2Model ----
(***************************************************************************)
(* Teaching-session lifecycle and QR-code attendance of be_android.        *)
(*                                                                         *)
(* The durable store is the Supabase tables teaching_sessions and          *)
(* attendances as app/models declares them; every repository call is one   *)
(* atomic statement against it.  The closure task is a Hatchet scheduled   *)
(* run.  Time is an integer clock (datetime.utcnow()).                     *)
(***************************************************************************)
EXTENDS Integers, Sequences, FiniteSets, TLC

\* ---------------------------------------------------------------- bounds
MaxSessions == 1    \* teaching_sessions ids 1..MaxSessions
MaxTime     == 2    \* the clock runs 0..MaxTime
MaxTokens   == 2    \* QR tokens generate_qr_code may draw
MaxRuns     == 2    \* scheduled runs Hatchet may hold at once
MaxStudents == 2    \* student ids 1..MaxStudents
MaxCalls    == 2    \* attendance requests in flight at once
MaxRows     == 2    \* rows the plain attendance create may add

SessionIds == 1..MaxSessions

\* The ids a request may name: those of SessionIds and one more, whose row
\* only the token-binding runs create; elsewhere get_by_id finds no row
\* for it.
TableIds   == 1..(MaxSessions + 1)
StudentIds == 1..MaxStudents
Times      == 0..MaxTime
Calls      == 1..MaxCalls

\* expiry_minutes: int = Query(30, ge=5, le=120).  The clock's unit is chosen
\* so that the two limits are 1 and 2 units.
ge == 1
le == 2

\* expiry_minutes values the endpoint passes on to generate_qr_code
ExpiryMinutes == ge..le

\* expiry_minutes values a client sends: below, within and above the limits
RequestedMinutes == (ge - 1)..(le + 1)

VARIABLES
    now,                \* datetime.utcnow()
    status_check,       \* whether the deployed table carries the declared
                        \* teaching_sessions_status_check constraint
    teaching_sessions,  \* table teaching_sessions: id -> row
    ever_open,          \* history: the session has had status "Open"
    issued,             \* number of tokens secrets.token_urlsafe has drawn
    scheduled_runs,     \* Hatchet: scheduled runs of close-session-workflow
                        \* that have not run yet
    task_result,        \* what the last run of close_teaching_session did
    attendances,        \* table attendances: sequence of rows, id = index
    calls               \* attendance requests being served

vars == <<now, status_check, teaching_sessions, ever_open, issued,
          scheduled_runs, task_result, attendances, calls>>

session_vars == <<now, status_check, teaching_sessions, ever_open, issued,
                  scheduled_runs, task_result>>
intake_vars  == <<attendances, calls>>

\* ------------------------------------------------------------ the store
\* An Optional column is a sequence: <<>> is NULL, <<v>> / <<a, b>> a value.
NULL == <<>>

\* f"attendance://{session_id}/{qr_token}"
QrCode(session_id, qr_token) == <<session_id, qr_token>>

\* A string a caller made up (never one secrets.token_urlsafe returns).
Forged(session_id) == <<session_id, 0>>

NoSession ==
    [exists |-> FALSE, status |-> "Close", qr_code |-> NULL,
     qr_expired_at |-> NULL, start_time |-> 0, end_time |-> 0,
     updated_at |-> NULL]

\* A request slot that serves no call.  `actor` is the user_type of the
\* caller; `session_status` is history: the status of the row that
\* validate_qr_code fetched; `read` is the status a client read before it
\* sends a correction; `store_error` is history: the call's
\* get_by_session_and_student caught an exception of the store.
IdleCall ==
    [op |-> "idle", pc |-> "idle", actor |-> "", session_id |-> 0,
     student_id |-> 0, qr_code |-> NULL, status |-> "", existing |-> 0,
     session_status |-> "", read |-> "", store_error |-> FALSE,
     result |-> ""]

\* CheckConstraint "status IN ('Open', 'Close')"
StatusCheck(status) == status \in {"Open", "Close"}

\* An UPDATE/INSERT of `status` is accepted by the table.
StoreAccepts(status) == status_check => StatusCheck(status)

\* TeachingSession.is_active and get_open_sessions read status == "Open".
IsOpen(s) == teaching_sessions[s].exists /\ teaching_sessions[s].status = "Open"

IsClosed(s) == teaching_sessions[s].exists /\ teaching_sessions[s].status # "Open"

\* Every qr_code string a client may submit for session s.
Codes(s) == {QrCode(s, n) : n \in 0..MaxTokens}

\* ------------------------------------------------ TeachingSessionService
\* validate_qr_code: row found, qr_code equal, and not (expiry set and past).
validate_qr_code(session_id, qr_code) ==
    LET session == teaching_sessions[session_id] IN
    /\ session.exists
    /\ session.qr_code = qr_code
    /\ ~(session.qr_expired_at # NULL /\ now > session.qr_expired_at[1])

\* update_qr_code whose UPDATE carries no filter on id: every row gets the
\* qr_code and the expiry.
update_qr_code_every_row(session_id, qr_code, expired_at) ==
    [s \in DOMAIN teaching_sessions |->
        IF teaching_sessions[s].exists /\ teaching_sessions[session_id].exists
        THEN [teaching_sessions[s] EXCEPT !.qr_code = qr_code,
                                          !.qr_expired_at = <<expired_at>>]
        ELSE teaching_sessions[s]]

\* update_qr_code that keeps a qr_code already stored and only moves the expiry.
update_qr_code_keeps_old(session_id, qr_code, expired_at) ==
    [teaching_sessions EXCEPT
        ![session_id] = IF @.exists
                        THEN [@ EXCEPT !.qr_code = IF @ = NULL THEN qr_code ELSE @,
                                       !.qr_expired_at = <<expired_at>>]
                        ELSE @]

\* update_qr_code: one UPDATE of qr_code and qr_expired_at where id matches.
update_qr_code(session_id, qr_code, expired_at) ==
    [teaching_sessions EXCEPT
        ![session_id] = IF @.exists
                        THEN [@ EXCEPT !.qr_code = qr_code,
                                       !.qr_expired_at = <<expired_at>>]
                        ELSE @]

\* generate_qr_code: a fresh token, expiry now + expiry_minutes, one UPDATE.
generate_qr_code(session_id, expiry_minutes) ==
    /\ issued < MaxTokens
    /\ issued' = IF teaching_sessions[session_id].exists
                 THEN issued + 1 ELSE issued
    /\ teaching_sessions' =
           update_qr_code(session_id, QrCode(session_id, issued + 1),
                          now + expiry_minutes)
    /\ UNCHANGED <<now, status_check, ever_open, scheduled_runs, task_result>>
    /\ UNCHANGED intake_vars

\* generate_session_qr_code that hands any expiry_minutes to the service.
generate_session_qr_code_unchecked(session_id, expiry_minutes) ==
    generate_qr_code(session_id, expiry_minutes)

\* POST /classes/sessions/{session_id}/qr-code: FastAPI answers 422, and the
\* handler does not run, unless ge <= expiry_minutes <= le.
generate_session_qr_code(session_id, expiry_minutes) ==
    /\ ge <= expiry_minutes
    /\ expiry_minutes <= le
    /\ generate_qr_code(session_id, expiry_minutes)

\* ------------------------------------------------------- session CRUD
\* POST /sessions: TeachingSessionRepository.create inserts payload.dict();
\* status defaults to "Close" (also the column default used by
\* POST /classes/{id}/sessions, whose payload has no status).
create_session(session_id, status, start_time, end_time) ==
    /\ ~teaching_sessions[session_id].exists
    /\ \A s \in SessionIds : s < session_id => teaching_sessions[s].exists
    /\ StoreAccepts(status)
    /\ teaching_sessions' =
           [teaching_sessions EXCEPT
               ![session_id] = [exists |-> TRUE, status |-> status,
                                qr_code |-> NULL, qr_expired_at |-> NULL,
                                start_time |-> start_time,
                                end_time |-> end_time,
                                updated_at |-> NULL]]
    /\ ever_open' = [ever_open EXCEPT ![session_id] = (status = "Open")]
    /\ UNCHANGED <<now, status_check, issued, scheduled_runs, task_result>>
    /\ UNCHANGED intake_vars

\* TeachingSessionRepository.update: the fields the payload sets, where id
\* matches.  `payload` is data.dict(exclude_unset=True) restricted to the
\* columns status, qr_code and end_time.
SessionUpdate(session, payload) ==
    [session EXCEPT
        !.status  = IF "status" \in DOMAIN payload THEN payload.status ELSE @,
        !.qr_code = IF "qr_code" \in DOMAIN payload THEN payload.qr_code ELSE @,
        !.end_time = IF "end_time" \in DOMAIN payload
                     THEN payload.end_time ELSE @]

\* PUT /sessions/{id}: 404 when the row is missing, else repo.update.
update_session(id, payload) ==
    /\ teaching_sessions[id].exists
    /\ teaching_sessions' =
           [teaching_sessions EXCEPT ![id] = SessionUpdate(@, payload)]
    /\ ever_open' =
           [ever_open EXCEPT ![id] = @ \/ teaching_sessions'[id].status = "Open"]
    /\ UNCHANGED <<now, status_check, issued, scheduled_runs, task_result>>
    /\ UNCHANGED intake_vars

\* The payloads PUT /sessions/{id} is called with: a status, or a qr_code
\* that is null, made up, or a token issued before.
UpdatePayloads(id) ==
    {[status |-> st] : st \in {"Open", "Close"}}
    \cup {[qr_code |-> c] : c \in {NULL} \cup {QrCode(id, n) : n \in 0..issued}}

\* ------------------------------------------------------ closure scheduler
\* CloseSessionInput of a scheduled run, with the run_at it was given.
\* `cancel_reported` is history: cancel_scheduled_closure has returned True
\* for this run.
ScheduledRun(session_id, scheduled_time) ==
    [session_id |-> session_id, run_at |-> scheduled_time,
     cancel_reported |-> FALSE]

\* schedule_session_closure: close_session_workflow.schedule(run_at=...).
schedule_session_closure(session_id, scheduled_time) ==
    /\ Cardinality(scheduled_runs) < MaxRuns
    /\ scheduled_runs' =
           scheduled_runs \cup {ScheduledRun(session_id, scheduled_time)}
    /\ UNCHANGED <<now, status_check, teaching_sessions, ever_open, issued,
                   task_result>>
    /\ UNCHANGED intake_vars

\* cancel_scheduled_closure: logs "Would cancel scheduled run" and returns
\* True.  Hatchet is not called: the run stays scheduled as it was.
cancel_scheduled_closure(input) ==
    /\ input \in scheduled_runs
    /\ scheduled_runs' =
           (scheduled_runs \ {input})
           \cup {[input EXCEPT !.cancel_reported = TRUE]}
    /\ UNCHANGED <<now, status_check, teaching_sessions, ever_open, issued,
                   task_result>>
    /\ UNCHANGED intake_vars

\* The UPDATE of close_teaching_session: status "Closed" and updated_at
\* utcnow() where id matches.  No other statement writes updated_at, which
\* is NULL here until the task has written it.
CloseUpdate(session) ==
    [session EXCEPT !.status = "Closed", !.updated_at = <<now>>]

\* What close_teaching_session does with the UPDATE's outcome: "success"
\* is the dict with success True (response.data holds the row), "no_data"
\* the dict with success False, "raised" the exception re-raised to Hatchet.
CloseOutcome(session) ==
    IF ~session.exists THEN "no_data"
    ELSE IF StoreAccepts(CloseUpdate(session).status) THEN "success"
    ELSE "raised"

NoTaskResult == [session_id |-> 0, outcome |-> "none"]

\* close_teaching_session, run by Hatchet at or after the run's run_at.
close_teaching_session(input) ==
    LET s == input.session_id IN
    /\ input \in scheduled_runs
    /\ now >= input.run_at
    /\ scheduled_runs' = scheduled_runs \ {input}
    /\ task_result' = [session_id |-> s,
                       outcome |-> CloseOutcome(teaching_sessions[s])]
    /\ teaching_sessions' =
           IF CloseOutcome(teaching_sessions[s]) = "success"
           THEN [teaching_sessions EXCEPT ![s] = CloseUpdate(@)]
           ELSE teaching_sessions
    /\ UNCHANGED <<now, status_check, ever_open, issued>>
    /\ UNCHANGED intake_vars

\* close_teaching_session when the store cannot be reached: the UPDATE
\* raises, the task logs and re-raises to Hatchet.  The task is declared
\* with @close_session_workflow.task() and no retries, and a scheduled run
\* is triggered once: the failed run is over.
close_teaching_session_store_down(input) ==
    /\ input \in scheduled_runs
    /\ now >= input.run_at
    /\ scheduled_runs' = scheduled_runs \ {input}
    /\ task_result' = [session_id |-> input.session_id, outcome |-> "raised"]
    /\ UNCHANGED <<now, status_check, teaching_sessions, ever_open, issued>>
    /\ UNCHANGED intake_vars

\* ----------------------------------------------------- AttendanceService
\* Ids of the attendances rows of (session_id, student_id).
Matching(session_id, student_id) ==
    {i \in DOMAIN attendances :
        /\ attendances[i].session_id = session_id
        /\ attendances[i].student_id = student_id}

\* The status values the attendances table accepts from a teacher.
ManualStatuses == {"absent", "late"}

\* BaseRepository.create / AttendanceRepository.create: one INSERT; the
\* table declares no uniqueness over (session_id, student_id).
InsertAttendance(row) == Append(attendances, row)

\* BaseRepository.update: one UPDATE where id matches.
UpdateAttendance(id, status) ==
    [attendances EXCEPT ![id].status = status]

Done(call, result) == [call EXCEPT !.pc = "done", !.result = result]

\* mark_attendance_by_qr whose validation uses the token up: a qr_code that
\* validated is cleared from the session row.
mark_attendance_by_qr_validate_consuming(p, session_id, student_id, qr_code) ==
    /\ calls[p].pc = "idle"
    /\ LET call == [IdleCall EXCEPT !.op = "qr", !.session_id = session_id,
                        !.student_id = student_id, !.qr_code = qr_code,
                        !.session_status =
                            IF teaching_sessions[session_id].exists
                            THEN teaching_sessions[session_id].status
                            ELSE ""] IN
       calls' = [calls EXCEPT ![p] =
                    IF validate_qr_code(session_id, qr_code)
                    THEN [call EXCEPT !.pc = "lookup"]
                    ELSE Done(call, "invalid")]
    /\ teaching_sessions' =
           IF validate_qr_code(session_id, qr_code)
           THEN [teaching_sessions EXCEPT ![session_id].qr_code = NULL]
           ELSE teaching_sessions
    /\ UNCHANGED attendances
    /\ UNCHANGED <<now, status_check, ever_open, issued, scheduled_runs,
                   task_result>>

\* mark_attendance_by_qr, first statement: validate_qr_code reads the session.
mark_attendance_by_qr_validate(p, session_id, student_id, qr_code) ==
    /\ calls[p].pc = "idle"
    /\ LET call == [IdleCall EXCEPT !.op = "qr", !.session_id = session_id,
                        !.student_id = student_id, !.qr_code = qr_code,
                        !.session_status =
                            IF teaching_sessions[session_id].exists
                            THEN teaching_sessions[session_id].status
                            ELSE ""] IN
       calls' = [calls EXCEPT ![p] =
                    IF validate_qr_code(session_id, qr_code)
                    THEN [call EXCEPT !.pc = "lookup"]
                    ELSE Done(call, "invalid")]
    /\ UNCHANGED attendances
    /\ UNCHANGED session_vars

\* mark_attendance_by_qr whose lookup asks for any row of the session:
\* the first student's row turns every later student away.
mark_attendance_by_qr_lookup_by_session(p) ==
    /\ calls[p].op = "qr" /\ calls[p].pc = "lookup"
    /\ calls' = [calls EXCEPT ![p] =
                    IF \E u \in StudentIds : Matching(@.session_id, u) # {}
                    THEN Done(@, "already")
                    ELSE [@ EXCEPT !.pc = "insert"]]
    /\ UNCHANGED attendances
    /\ UNCHANGED session_vars

\* mark_attendance_by_qr whose lookup result is ignored: it always inserts.
mark_attendance_by_qr_lookup_ignored(p) ==
    /\ calls[p].op = "qr" /\ calls[p].pc = "lookup"
    /\ calls' = [calls EXCEPT ![p] = [@ EXCEPT !.pc = "insert"]]
    /\ UNCHANGED attendances
    /\ UNCHANGED session_vars

\* mark_attendance_by_qr, second statement: get_by_session_and_student.
mark_attendance_by_qr_lookup(p) ==
    /\ calls[p].op = "qr" /\ calls[p].pc = "lookup"
    /\ calls' = [calls EXCEPT ![p] =
                    IF Matching(@.session_id, @.student_id) # {}
                    THEN Done(@, "already")
                    ELSE [@ EXCEPT !.pc = "insert"]]
    /\ UNCHANGED attendances
    /\ UNCHANGED session_vars

\* mark_attendance_by_qr, third statement: repository.create.
mark_attendance_by_qr_insert(p) ==
    /\ calls[p].op = "qr" /\ calls[p].pc = "insert"
    /\ attendances' =
           InsertAttendance([session_id |-> calls[p].session_id,
                             student_id |-> calls[p].student_id,
                             status |-> "present",
                             attendance_time |-> now,
                             confidence_score |-> <<1>>])
    /\ calls' = [calls EXCEPT ![p] = Done(@, "ok")]
    /\ UNCHANGED session_vars

\* What AttendanceService.mark_attendance_by_qr returns: the created row,
\* or None, since `except Exception` catches each ValueError it raised.
mark_attendance_by_qr_return(result) ==
    IF result = "ok" THEN "Attendance" ELSE "None"

\* What POST /classes/sessions/{session_id}/attendance/qr answers.  For None
\* the handler raises HTTPException(400) inside its own try block, where
\* `except Exception` turns it into the 500 answer.
mark_attendance_by_qr_response(result) ==
    IF mark_attendance_by_qr_return(result) = "None"
    THEN [status_code |-> 500, detail |-> "Internal server error"]
    ELSE [status_code |-> 200,
          detail |-> "Attendance marked successfully using QR code"]

\* UserRole values of a caller's token; "anonymous" sends no token.
Actors == {"teacher", "student", "anonymous"}

\* get_teacher_user: the dependency that lets only a teacher or an admin in.
get_teacher_user(actor) == actor \in {"teacher", "admin"}

\* POST /classes/sessions/{session_id}/attendance declares no dependency on
\* the caller: whoever `actor` is, mark_attendance_manual runs.  Its first
\* statement: get_by_session_and_student returns one of the matching rows
\* (response.data[0]) or None.
mark_attendance_manual_lookup(p, actor, session_id, student_id, status) ==
    /\ calls[p].pc = "idle"
    /\ LET call  == [IdleCall EXCEPT !.op = "manual", !.actor = actor,
                        !.session_id = session_id,
                        !.student_id = student_id, !.status = status]
           found == Matching(session_id, student_id) IN
       IF found = {}
       THEN calls' = [calls EXCEPT ![p] = [call EXCEPT !.pc = "insert"]]
       ELSE \E i \in found :
               calls' = [calls EXCEPT ![p] =
                            [call EXCEPT !.pc = "update", !.existing = i]]
    /\ UNCHANGED attendances
    /\ UNCHANGED session_vars

\* mark_attendance_manual, existing row: repository.update(existing.id, ...).
mark_attendance_manual_update(p) ==
    /\ calls[p].op = "manual" /\ calls[p].pc = "update"
    /\ attendances' = UpdateAttendance(calls[p].existing, calls[p].status)
    /\ calls' = [calls EXCEPT ![p] = Done(@, "ok")]
    /\ UNCHANGED session_vars

\* mark_attendance_manual, no row: repository.create.
mark_attendance_manual_insert(p) ==
    /\ calls[p].op = "manual" /\ calls[p].pc = "insert"
    /\ attendances' =
           InsertAttendance([session_id |-> calls[p].session_id,
                             student_id |-> calls[p].student_id,
                             status |-> calls[p].status,
                             attendance_time |-> now,
                             confidence_score |-> NULL])
    /\ calls' = [calls EXCEPT ![p] = Done(@, "ok")]
    /\ UNCHANGED session_vars

\* mark_attendance_by_qr, second statement, when the store cannot be
\* reached: get_by_session_and_student catches the exception, prints it and
\* returns None, which the service reads as "no row" and goes on.
mark_attendance_by_qr_lookup_store_down(p) ==
    /\ calls[p].op = "qr" /\ calls[p].pc = "lookup"
    /\ calls' = [calls EXCEPT ![p] =
                    [@ EXCEPT !.pc = "insert", !.store_error = TRUE]]
    /\ UNCHANGED attendances
    /\ UNCHANGED session_vars

\* mark_attendance_manual, first statement, when the store cannot be
\* reached: None again, and the service goes on to create a row.
mark_attendance_manual_lookup_store_down(p, actor, session_id, student_id, status) ==
    /\ calls[p].pc = "idle"
    /\ calls' = [calls EXCEPT ![p] =
                    [IdleCall EXCEPT !.op = "manual", !.pc = "insert",
                                     !.actor = actor,
                                     !.session_id = session_id,
                                     !.student_id = student_id,
                                     !.status = status,
                                     !.store_error = TRUE]]
    /\ UNCHANGED attendances
    /\ UNCHANGED session_vars

\* POST /attendances: AttendanceRepository.create(payload), no lookup.
create_attendance(session_id, student_id, status) ==
    /\ Len(attendances) < MaxRows
    /\ attendances' =
           InsertAttendance([session_id |-> session_id,
                             student_id |-> student_id,
                             status |-> status,
                             attendance_time |-> now,
                             confidence_score |-> NULL])
    /\ UNCHANGED calls
    /\ UNCHANGED session_vars

\* The status values a correction carries (those the table accepts).
CorrectionStatuses == {"present", "absent", "late"}

\* GET /attendances/{id}: the client of request slot p reads row id and
\* keeps the status it saw; 404 (nothing kept) when the row is missing.
get_attendance(p, id) ==
    /\ calls[p].pc = "idle"
    /\ id \in DOMAIN attendances
    /\ calls' = [calls EXCEPT ![p] =
                    [IdleCall EXCEPT !.op = "correct", !.pc = "put",
                                     !.existing = id,
                                     !.read = attendances[id].status]]
    /\ UNCHANGED attendances
    /\ UNCHANGED session_vars

\* PUT /attendances/{id} with payload {status}: get_by_id finds the row
\* (rows are never deleted here), then AttendanceRepository.update issues
\* one UPDATE where id matches.  The payload carries no read value.
update_attendance(p, status) ==
    /\ calls[p].op = "correct" /\ calls[p].pc = "put"
    /\ attendances' = UpdateAttendance(calls[p].existing, status)
    /\ calls' = [calls EXCEPT ![p] = Done([@ EXCEPT !.status = status], "ok")]
    /\ UNCHANGED session_vars

\* ------------------------------------------------------------- the clock
Tick ==
    /\ now < MaxTime
    /\ now' = now + 1
    /\ UNCHANGED <<status_check, teaching_sessions, ever_open, issued,
                   scheduled_runs, task_result>>
    /\ UNCHANGED intake_vars

\* ------------------------------------------------------ process restart
\* The API process stops and starts again: lifespan only prints, requests
\* in flight are gone, the tables and Hatchet's scheduled runs stay.
Restart ==
    /\ calls' = [p \in Calls |-> IdleCall]
    /\ UNCHANGED attendances
    /\ UNCHANGED session_vars

\* ------------------------------------------------------- specification
Init ==
    /\ now = 0
    /\ status_check \in BOOLEAN
    /\ teaching_sessions = [s \in TableIds |-> NoSession]
    /\ ever_open = [s \in TableIds |-> FALSE]
    /\ issued = 0
    /\ scheduled_runs = {}
    /\ task_result = NoTaskResult
    /\ attendances = <<>>
    /\ calls = [p \in Calls |-> IdleCall]

\* Sessions are planned from the origin of the clock to a later end_time.
CreateSession ==
    \E s \in SessionIds, st \in {"Open", "Close"}, e \in Times \ {0} :
        create_session(s, st, 0, e)

UpdateSession ==
    \E s \in SessionIds : \E payload \in UpdatePayloads(s) :
        update_session(s, payload)

GenerateQrCode ==
    \E s \in SessionIds, m \in RequestedMinutes :
        generate_session_qr_code(s, m)

ScheduleSessionClosure ==
    \E s \in SessionIds, t \in Times : schedule_session_closure(s, t)

CloseTeachingSession ==
    \E input \in scheduled_runs : close_teaching_session(input)

Next ==
    \/ CreateSession
    \/ UpdateSession
    \/ GenerateQrCode
    \/ ScheduleSessionClosure
    \/ CloseTeachingSession
    \/ Restart
    \/ Tick

Spec == Init /\ [][Next]_vars

\* The operations that write or read a session's token: the closure task
\* writes status and updated_at only.
TokenNext ==
    \/ CreateSession
    \/ UpdateSession
    \/ GenerateQrCode
    \/ Tick

TokenSpec == Init /\ [][TokenNext]_vars

\* Sessions are created and tokens are issued through the endpoint while
\* time passes.
IssueNext ==
    \/ CreateSession
    \/ GenerateQrCode
    \/ Tick

IssueSpec == Init /\ [][IssueNext]_vars

\* The clock advances, and Hatchet runs every scheduled run that is due.
FairSpec ==
    /\ Init /\ [][Next]_vars
    /\ WF_vars(Tick)
    /\ WF_vars(CloseTeachingSession)

\* ------------------------------------------- attendance intake, one session
\* A state the lifecycle reaches: session 1 created Open with the latest
\* end_time, then generate_qr_code(1, 2) at time 0; no attendance yet.
IntakeInit ==
    /\ now = 0
    /\ status_check \in BOOLEAN
    /\ teaching_sessions =
           [s \in TableIds |->
               IF s = 1
               THEN [exists |-> TRUE, status |-> "Open",
                     qr_code |-> QrCode(1, 1),
                     qr_expired_at |-> <<2>>, start_time |-> 0,
                     end_time |-> MaxTime, updated_at |-> NULL]
               ELSE NoSession]
    /\ ever_open = [s \in TableIds |-> s = 1]
    /\ issued = 1
    /\ scheduled_runs = {}
    /\ task_result = NoTaskResult
    /\ attendances = <<>>
    /\ calls = [p \in Calls |-> IdleCall]

QrValidate ==
    \E p \in Calls, u \in StudentIds, c \in {QrCode(1, 1), Forged(1)} :
        mark_attendance_by_qr_validate(p, 1, u, c)

QrLookup == \E p \in Calls : mark_attendance_by_qr_lookup(p)

QrInsert == \E p \in Calls : mark_attendance_by_qr_insert(p)

ManualLookup ==
    \E p \in Calls, a \in Actors, u \in StudentIds, st \in ManualStatuses :
        mark_attendance_manual_lookup(p, a, 1, u, st)

ManualUpdate == \E p \in Calls : mark_attendance_manual_update(p)

ManualInsert == \E p \in Calls : mark_attendance_manual_insert(p)

CreateAttendance ==
    \E u \in StudentIds, st \in ManualStatuses : create_attendance(1, u, st)

IntakeNext ==
    \/ QrValidate
    \/ QrLookup
    \/ QrInsert
    \/ ManualLookup
    \/ ManualUpdate
    \/ ManualInsert
    \/ CreateAttendance

SpecIntake == IntakeInit /\ [][IntakeNext]_vars

\* ------------------------------------------- corrections of attendance rows
GetAttendance ==
    \E p \in Calls, id \in 1..MaxRows : get_attendance(p, id)

CorrectAttendance ==
    \E p \in Calls, st \in CorrectionStatuses : update_attendance(p, st)

CorrectNext ==
    \/ CreateAttendance
    \/ GetAttendance
    \/ CorrectAttendance

CorrectSpec == IntakeInit /\ [][CorrectNext]_vars

\* --------------------------------- QR check-in while the session runs out
\* A state the lifecycle reaches: session 1 created Open, a token issued at
\* time 0 with an accepted expiry, a closure run scheduled; no attendance.
CheckInInit ==
    /\ now = 0
    /\ status_check \in BOOLEAN
    /\ \E m \in ExpiryMinutes :
          teaching_sessions =
              [s \in TableIds |->
                  IF s = 1
                  THEN [exists |-> TRUE, status |-> "Open",
                        qr_code |-> QrCode(1, 1),
                        qr_expired_at |-> <<m>>, start_time |-> 0,
                        end_time |-> MaxTime, updated_at |-> NULL]
                  ELSE NoSession]
    /\ ever_open = [s \in TableIds |-> s = 1]
    /\ issued = 1
    /\ \E t \in Times : scheduled_runs = {ScheduledRun(1, t)}
    /\ task_result = NoTaskResult
    /\ attendances = <<>>
    /\ calls = [p \in Calls |-> IdleCall]

CheckInNext ==
    \/ QrValidate
    \/ QrLookup
    \/ QrInsert
    \/ CloseTeachingSession
    \/ Tick

CheckInSpec == CheckInInit /\ [][CheckInNext]_vars

\* ------------------------------------ token validation, any session id
\* The first statement of a QR check-in for any session id a client names,
\* while the closure task and the clock run.  validate_qr_code is not given
\* the student id: student 1 stands for every caller.
ValidateQrCode ==
    \E p \in Calls, s \in TableIds, c \in {QrCode(1, 1), Forged(1)} :
        mark_attendance_by_qr_validate(p, s, 1, c)

ValidateNext ==
    \/ ValidateQrCode
    \/ CloseTeachingSession
    \/ Restart
    \/ Tick

ValidateSpec == CheckInInit /\ [][ValidateNext]_vars

\* ------------------------------------------- tokens of several sessions
\* Sessions are created under every id of the table and tokens are issued
\* for them through the endpoint while time passes.
CreateAnySession ==
    \E s \in TableIds, st \in {"Open", "Close"}, e \in Times \ {0} :
        create_session(s, st, 0, e)

GenerateAnyQrCode ==
    \E s \in TableIds, m \in RequestedMinutes :
        generate_session_qr_code(s, m)

BindingNext ==
    \/ CreateAnySession
    \/ GenerateAnyQrCode
    \/ Tick

BindingSpec == Init /\ [][BindingNext]_vars

\* ------------------------------------- closures scheduled at the planned end
\* Every closure is scheduled with the end_time the session row holds at
\* that moment; PUT /sessions/{id} may move the end_time afterwards.
ScheduleAtPlannedEnd ==
    \E s \in SessionIds :
        /\ teaching_sessions[s].exists
        /\ schedule_session_closure(s, teaching_sessions[s].end_time)

UpdateEndTime ==
    \E s \in SessionIds, e \in Times \ {0} :
        update_session(s, [end_time |-> e])

PlannedEndNext ==
    \/ CreateSession
    \/ ScheduleAtPlannedEnd
    \/ UpdateEndTime
    \/ CloseTeachingSession
    \/ Tick

PlannedEndSpec == Init /\ [][PlannedEndNext]_vars

\* --------------------------------------- the lifecycle with store outages
\* As Spec, and the store may be unreachable when a closure run fires.
CloseTeachingSessionStoreDown ==
    \E input \in scheduled_runs : close_teaching_session_store_down(input)

OutageNext ==
    \/ Next
    \/ CloseTeachingSessionStoreDown

OutageSpec == Init /\ [][OutageNext]_vars

\* The clock advances, and Hatchet runs every scheduled run that is due.
FairOutageSpec ==
    /\ Init /\ [][OutageNext]_vars
    /\ WF_vars(Tick)
    /\ WF_vars(CloseTeachingSession \/ CloseTeachingSessionStoreDown)

\* --------------------------------------- the lifecycle with cancellations
\* As Spec, and a scheduled closure may be cancelled before it runs.
CancelScheduledClosure ==
    \E input \in scheduled_runs : cancel_scheduled_closure(input)

CancelNext ==
    \/ Next
    \/ CancelScheduledClosure

CancelSpec == Init /\ [][CancelNext]_vars

\* ------------------------------------ attendance intake with store outages
\* As SpecIntake, and the store may be unreachable when a check-in looks
\* the pair up; it is reachable again when the call goes on.
QrLookupStoreDown ==
    \E p \in Calls : mark_attendance_by_qr_lookup_store_down(p)

ManualLookupStoreDown ==
    \E p \in Calls, a \in Actors, u \in StudentIds, st \in ManualStatuses :
        mark_attendance_manual_lookup_store_down(p, a, 1, u, st)

OutageIntakeNext ==
    \/ IntakeNext
    \/ QrLookupStoreDown
    \/ ManualLookupStoreDown

OutageIntakeSpec == IntakeInit /\ [][OutageIntakeNext]_vars

\* ================================================================ claims

\* C1: for every (session, student) pair the attendances table holds at
\* most one row, whatever attendance-writing operations have run.
C1_AtMostOneEntryPerPair ==
    \A s \in SessionIds, u \in StudentIds :
        Cardinality(Matching(s, u)) <= 1

\* The QR check-ins of student u on session 1 that carried the current token.
QrCallsOf(u) ==
    {p \in Calls : /\ calls[p].op = "qr"
                   /\ calls[p].session_id = 1
                   /\ calls[p].student_id = u
                   /\ calls[p].qr_code = teaching_sessions[1].qr_code}

\* C2: when two or more QR check-ins of one (session, student) pair with a
\* valid token have all returned, and no other operation wrote a row of the
\* pair, exactly one of them succeeded and each other one failed as already
\* marked.
C2_ExactlyOneCheckInSucceeds ==
    \A u \in StudentIds :
        ( /\ Cardinality(QrCallsOf(u)) >= 2
          /\ \A p \in QrCallsOf(u) : calls[p].pc = "done"
          /\ \A i \in Matching(1, u) : attendances[i].confidence_score # NULL )
        => /\ Cardinality({p \in QrCallsOf(u) : calls[p].result = "ok"}) = 1
           /\ \A p \in QrCallsOf(u) : calls[p].result \in {"ok", "already"}

\* C3: a run of the close task never raises; on an Open session it reports
\* that it closed the session, on a session already closed it reports
\* closed = false.
C3_CloseIsIdempotent ==
    [][\A input \in scheduled_runs :
          (close_teaching_session(input)
              /\ teaching_sessions[input.session_id].exists)
          => task_result'.outcome
                 = IF IsOpen(input.session_id) THEN "success" ELSE "no_data"]_vars

\* C4: a session that was Open and is now closed validates no token.
C4_ClosedSessionValidatesNoToken ==
    \A s \in SessionIds :
        (ever_open[s] /\ IsClosed(s))
        => \A c \in Codes(s) : ~validate_qr_code(s, c)

\* A closure run is registered for the existing session s and has not run.
ClosurePending(s) ==
    /\ teaching_sessions[s].exists
    /\ \E input \in scheduled_runs : input.session_id = s

\* C5: a session with a registered closure run is eventually closed,
\* whatever restarts happen before the run is due.
C5_RegisteredClosureEventuallyCloses ==
    \A s \in SessionIds : ClosurePending(s) ~> IsClosed(s)

\* C6: every session in the table whose planned end time has not come has
\* a closure run registered for that time.
C6_EveryCreatedSessionHasClosureJob ==
    \A s \in SessionIds :
        (teaching_sessions[s].exists /\ now < teaching_sessions[s].end_time)
        => ScheduledRun(s, teaching_sessions[s].end_time) \in scheduled_runs

\* At most one qr_code string validates for a session.
AtMostOneCodeValidates ==
    \A s \in SessionIds :
        Cardinality({c \in Codes(s) : validate_qr_code(s, c)}) <= 1

\* C7: right after generate_qr_code stores a new token for a session, every
\* other qr_code string, each previously issued token included, fails
\* validate_qr_code for that session; and at any time at most one string
\* validates.
C7_IssueReplacesCurrentToken ==
    /\ []AtMostOneCodeValidates
    /\ [][\A s \in SessionIds :
            ((\E m \in ExpiryMinutes : generate_qr_code(s, m))
                /\ teaching_sessions[s].exists)
            => \A c \in Codes(s) \ {QrCode(s, issued')} :
                  ~(validate_qr_code(s, c))']_vars

\* C7 witness: a second token was issued for a session whose first token
\* had not expired; the new one validates and the first one does not.
C7_Witness ==
    \E s \in SessionIds :
        /\ issued >= 2
        /\ teaching_sessions[s].qr_code = QrCode(s, issued)
        /\ validate_qr_code(s, QrCode(s, issued))
        /\ ~validate_qr_code(s, QrCode(s, 1))
        /\ now = 0

\* C8: a closed session stores no token value and no expiry.
C8_ClosedSessionHasNoToken ==
    \A s \in SessionIds :
        IsClosed(s)
        => /\ teaching_sessions[s].qr_code = NULL
           /\ teaching_sessions[s].qr_expired_at = NULL

\* C9: a session that was Open and has been closed never has status Open
\* again.
C9_ClosedIsTerminal ==
    [][\A s \in SessionIds :
          (ever_open[s] /\ IsClosed(s)) => ~IsOpen(s)']_vars

\* C10: the status of a session goes from closed to Open only while
\* now < plannedEnd; once plannedEnd has passed a request to open it is
\* refused and the status stays as it was.
C10_OpenOnlyBeforePlannedEnd ==
    [][\A s \in SessionIds :
          (IsClosed(s) /\ IsOpen(s)') => now < teaching_sessions[s].end_time]_vars

\* C11: generate_qr_code on a closed session is refused: it leaves the
\* session's stored token value and expiry as they were.
C11_IssueRequiresOpen ==
    [][\A s \in SessionIds :
          (IsClosed(s) /\ \E m \in ExpiryMinutes : generate_qr_code(s, m))
          => /\ teaching_sessions'[s].qr_code = teaching_sessions[s].qr_code
             /\ teaching_sessions'[s].qr_expired_at
                    = teaching_sessions[s].qr_expired_at]_vars

\* Grace periods that end before the clock's horizon.
GracePeriods == 0..(MaxTime - 1)

\* The rows mark_attendance_by_qr wrote (it alone sets confidence_score).
QrRows == {i \in DOMAIN attendances : attendances[i].confidence_score # NULL}

\* C12: there is a grace period for which every row a QR check-in wrote has
\* status present when it was written no later than plannedStart + grace,
\* and late when it was written after that.
C12_LatenessIsClassified ==
    \E g \in GracePeriods :
        \A i \in QrRows :
            LET session == teaching_sessions[attendances[i].session_id] IN
            attendances[i].status =
                IF attendances[i].attendance_time <= session.start_time + g
                THEN "present" ELSE "late"

\* What the spec's ValidateToken refuses: session not Open, another token
\* value, or the stored expiry passed.
TokenRefused(s, c) ==
    \/ ~IsOpen(s)
    \/ teaching_sessions[s].qr_code # c
    \/ /\ teaching_sessions[s].qr_expired_at # NULL
       /\ now > teaching_sessions[s].qr_expired_at[1]

\* C13: a QR check-in whose token is a wrong value, is expired, or belongs
\* to a session that is not Open ends as invalid at its validation step and
\* writes no row.
C13_InvalidTokenWritesNothing ==
    [][\A p \in Calls, u \in StudentIds, c \in Codes(1) :
          (mark_attendance_by_qr_validate(p, 1, u, c) /\ TokenRefused(1, c))
          => /\ calls'[p].pc = "done"
             /\ calls'[p].result = "invalid"
             /\ attendances' = attendances]_vars

\* The ttl the spec's IssueToken would use for a requested ttl.
Clamp(m) == IF m < ge THEN ge ELSE IF m > le THEN le ELSE m

\* C14 as stated: every request to issue a token for an existing session is
\* served, whatever ttl it carries, and stores the expiry now + Clamp(ttl).
C14_TtlIsClamped ==
    \A s \in SessionIds, m \in RequestedMinutes :
        (teaching_sessions[s].exists /\ issued < MaxTokens)
        => ENABLED ( /\ generate_session_qr_code(s, m)
                     /\ teaching_sessions'[s].qr_expired_at
                            = <<now + Clamp(m)>> )

\* C14 amended: a request whose ttl is outside [ge, le] is refused and
\* stores nothing; a request that is served stores now + ttl for the ttl it
\* carried, so every expiry the endpoint stores lies in
\* [now + ge, now + le].
C14_OutOfRangeTtlIsRefused ==
    /\ [](\A s \in SessionIds, m \in RequestedMinutes \ ExpiryMinutes :
            ~ENABLED generate_session_qr_code(s, m))
    /\ [][\A s \in SessionIds, m \in RequestedMinutes :
            (generate_session_qr_code(s, m) /\ teaching_sessions[s].exists)
            => /\ teaching_sessions'[s].qr_expired_at = <<now + m>>
               /\ now + ge <= teaching_sessions'[s].qr_expired_at[1]
               /\ teaching_sessions'[s].qr_expired_at[1] <= now + le]_vars

\* C14 witness: a token was stored with the longest accepted ttl, and a
\* request with a longer one is refused although a token could be drawn.
C14_Witness ==
    \E s \in SessionIds :
        /\ teaching_sessions[s].exists
        /\ issued >= 1 /\ issued < MaxTokens
        /\ teaching_sessions[s].qr_code = QrCode(s, issued)
        /\ teaching_sessions[s].qr_expired_at = <<now + le>>
        /\ ~ENABLED generate_session_qr_code(s, le + 1)
        /\ ENABLED generate_session_qr_code(s, le)

\* C15: a manual marking for a pair that already has a row changes no row
\* of the table: neither its status nor any other column.
C15_ManualMarkingNeverOverwrites ==
    [][\A p \in Calls :
          mark_attendance_manual_update(p)
          => \A i \in DOMAIN attendances : attendances'[i] = attendances[i]]_vars

\* C16: a correction is applied only to a row that still has the status
\* its sender read; of two corrections based on the same read, the second
\* one is refused instead of overwriting the first.
C16_CorrectionNeedsReadValue ==
    [][\A p \in Calls, st \in CorrectionStatuses :
          update_attendance(p, st)
          => attendances[calls[p].existing].status = calls[p].read]_vars

\* C17: every manual marking that created or changed a row was sent by an
\* actor get_teacher_user lets in.
C17_ManualMarkingNeedsInstructor ==
    \A p \in Calls :
        (calls[p].op = "manual" /\ calls[p].result = "ok")
        => get_teacher_user(calls[p].actor)

\* C18: two QR check-ins that failed for different reasons (invalid token,
\* already marked) got answers that differ, so the caller can tell the
\* reasons apart.
C18_CheckInFailuresAreTyped ==
    \A p, q \in Calls :
        ( /\ calls[p].op = "qr" /\ calls[p].pc = "done"
          /\ calls[q].op = "qr" /\ calls[q].pc = "done"
          /\ calls[p].result # "ok" /\ calls[q].result # "ok"
          /\ calls[p].result # calls[q].result )
        => mark_attendance_by_qr_response(calls[p].result)
               # mark_attendance_by_qr_response(calls[q].result)

\* C19: when the closure task and a QR check-in race, the check-in goes on
\* to write a row only if its validation step read the session while it was
\* Open.
C19_CheckInAfterCloseWritesNothing ==
    \A p \in Calls :
        (calls[p].op = "qr" /\ (calls[p].pc \in {"lookup", "insert"}
                                   \/ calls[p].result = "ok"))
        => calls[p].session_status = "Open"

\* mark_attendance_by_qr's "Attendance already marked for this session".
AlreadyMarked(call) == call.pc = "done" /\ call.result = "already"

C21_ValidationOnlyReads ==
    [][\A p \in Calls :
          ( /\ calls[p].pc = "idle"
            /\ calls'[p].op = "qr"
            /\ mark_attendance_by_qr_validate(p, calls'[p].session_id,
                                              calls'[p].student_id,
                                              calls'[p].qr_code) )
          => /\ teaching_sessions' = teaching_sessions
             /\ attendances' = attendances]_vars

\* One request validated the stored qr_code, one was refused for a session
\* that has no row, and the stored qr_code and its expiry are still there.
C21_Witness ==
    /\ \E p, q \in Calls :
          /\ calls[p].pc = "lookup" /\ calls[p].session_id = 1
          /\ calls[q].result = "invalid"
          /\ ~teaching_sessions[calls[q].session_id].exists
    /\ teaching_sessions[1].qr_code = QrCode(1, 1)
    /\ teaching_sessions[1].qr_expired_at # NULL

\* C22: a token serves any number of distinct students.  A check-in whose
\* qr_code validates goes on to the lookup whatever rows other students
\* have; a lookup that finds no row of the caller's own pair goes on to the
\* insert; the insert adds the caller's own row, reports success and leaves
\* the session's token as it was.  So after one student's successful
\* check-in another student's check-in with the same token succeeds too.
C22_TokenServesEveryStudent ==
    [][\A p \in Calls :
          /\ ( /\ calls[p].pc = "idle"
                /\ calls'[p].op = "qr"
                /\ validate_qr_code(calls'[p].session_id, calls'[p].qr_code) )
             => calls'[p].pc = "lookup"
          /\ ( /\ mark_attendance_by_qr_lookup(p)
                /\ Matching(calls[p].session_id, calls[p].student_id) = {} )
             => calls'[p].pc = "insert"
          /\ mark_attendance_by_qr_insert(p)
             => /\ calls'[p].result = "ok"
                /\ Len(attendances') = Len(attendances) + 1
                /\ attendances'[Len(attendances')].student_id
                       = calls[p].student_id
                /\ \A i \in DOMAIN attendances :
                       attendances'[i] = attendances[i]
                /\ teaching_sessions' = teaching_sessions]_vars

\* Two different students have both checked in successfully with the same
\* qr_code, and each has a row of their own.
C22_Witness ==
    \E p, q \in Calls :
        /\ calls[p].result = "ok" /\ calls[q].result = "ok"
        /\ calls[p].op = "qr" /\ calls[q].op = "qr"
        /\ calls[p].student_id # calls[q].student_id
        /\ calls[p].qr_code = calls[q].qr_code
        /\ Matching(1, calls[p].student_id) # {}
        /\ Matching(1, calls[q].student_id) # {}

\* C23: validate_qr_code(s, c) is true exactly when session s has a row,
\* its status is "Open", c equals the stored qr_code and now is not after
\* the stored qr_expired_at; a stored qr_code with no qr_expired_at never
\* validates, and now = qr_expired_at still validates.
C23_ValidatesIffOpenMatchingUnexpired ==
    \A s \in SessionIds : \A c \in Codes(s) :
        validate_qr_code(s, c)
        <=> /\ teaching_sessions[s].exists
            /\ teaching_sessions[s].status = "Open"
            /\ teaching_sessions[s].qr_code = c
            /\ teaching_sessions[s].qr_expired_at # NULL
            /\ now <= teaching_sessions[s].qr_expired_at[1]

C25_ClosureNeverFiresEarly ==
    [][\A input \in scheduled_runs :
          ( /\ close_teaching_session(input)
            /\ teaching_sessions[input.session_id].exists )
          => now >= teaching_sessions[input.session_id].end_time]_vars

\* C26: a closure run that fails because the store is unavailable is not
\* marked done: it stays among the scheduled runs, to be tried again.
C26_FailedCloseStaysPending ==
    [][\A input \in scheduled_runs :
          close_teaching_session_store_down(input)
          => input \in scheduled_runs']_vars

\* C27: once cancel_scheduled_closure has reported success for a scheduled
\* closure run, that run never runs the closure task; and a run that has
\* fired does not come back: scheduled runs are added only by a new call of
\* schedule_session_closure.
C27_CancelledClosureNeverFires ==
    [][/\ \A input \in scheduled_runs :
             close_teaching_session(input) => ~input.cancel_reported
       /\ \/ scheduled_runs' \subseteq scheduled_runs
          \/ ScheduleSessionClosure
          \/ CancelScheduledClosure]_vars

\* C28: a closure run delivered for a session that is already closed has no
\* further effect: every field of the session row and every attendances row
\* is as it was before.
C28_RepeatedCloseChangesNothing ==
    [][\A input \in scheduled_runs :
          ( /\ close_teaching_session(input)
            /\ IsClosed(input.session_id) )
          => /\ teaching_sessions' = teaching_sessions
             /\ attendances' = attendances]_vars

\* C29: the status the closure task writes is one the table and the schema
\* accept: the task's UPDATE is never refused, and the status of every
\* session row is one of the two declared values "Open" and "Close", so
\* that every reader can tell a closed session from an Open one.
C29_StatusIsDeclaredValue ==
    /\ task_result.outcome # "raised"
    /\ \A s \in SessionIds :
          teaching_sessions[s].exists
          => StatusCheck(teaching_sessions[s].status)

\* C30: when get_by_session_and_student fails because the store is
\* unavailable, the check-in (by QR code or manual) surfaces the failure
\* and writes nothing: the call is not taken on to the insert as if the
\* pair were unmarked, and it does not end with a row created.
C30_LookupFailureWritesNothing ==
    \A p \in Calls :
        calls[p].store_error
        => /\ calls[p].pc # "insert"
           /\ calls[p].result # "ok"

====
